---------------------------- MODULE Spec2Model ----------------------------
(***************************************************************************)
(* Model of adrsmake/bybit_scanner_final.py: the signed GET with backoff   *)
(* (BybitV5Client._request_get) and the coin x chain join scanner (main).  *)
(*                                                                         *)
(* Python values are written as strings, so that values of different       *)
(* Python types stay comparable: None is "<None>", a key that a dict does  *)
(* not hold is "<missing>", the str '0' is "0" and the int 0 is "i:0".     *)
(* Times are integers in milliseconds (the code computes seconds as        *)
(* floats: 0.8 s is 800).  The clock is re-based to Epoch at the start of  *)
(* every logical call: the code only ever uses differences of clock        *)
(* readings taken inside one call.                                         *)
(***************************************************************************)
EXTENDS Integers, Sequences, FiniteSets, TLC

VARIABLES
    pc,            \* position in main(): start, coin_info, loop, address, export, done; retry
    api_key,       \* args.api_key
    api_secret,    \* args.api_secret
    include_suspended, \* args.include_suspended
    coin_rows,     \* main: coin_rows
    coin_chain_idx,\* main: coin_chain_idx, a function from <<coin, chain>> to the chain entry
    coins,         \* main: coins (sorted list)
    i,             \* main: index of the coin being processed (enumerate, from 1)
    records,       \* main: records
    failures,      \* main: failures
    call_log,      \* history: the address lookups that have ended, in order
    exported,      \* what export_json / export_csv have written, if they have
    exit_code,     \* return value of main (or 1 for an uncaught exception)
    path,          \* _request_get: path of the logical call
    query_string,  \* _request_get: query_string
    attempt,       \* _request_get: loop variable of `for attempt in range(max_retries)`
    now,           \* the wall clock, ms
    ts,            \* _request_get: ts of the latest physical attempt
    req,           \* the latest physical request (url and headers)
    resp,          \* the latest response
    sleep_ms,      \* argument of the latest time.sleep inside _request_get, ms
    sent,          \* number of physical requests of the current logical call
    sleeps,        \* number of time.sleep calls inside the current logical call
    retriable_seen,\* number of retried responses of the current logical call
    outcome,       \* how the logical call ended: none / return / raise
    total_sent,    \* physical requests of the whole run
    run,           \* which run of the program this is: 1, or 2 for a second run
    backend,       \* second-run study: the answers the backend holds, fixed for both runs
    first,         \* second-run study: what the first run ended with
    query_params,  \* token signers: the query parameters, a dict in insertion order
    reordered,     \* token signers: the same key/value pairs inserted in another order
    bithumb_tokens,\* BithumbClient._get_token of query_params and of reordered
    upbit_tokens,  \* UpbitClient._get_token of query_params and of reordered
    currencies,    \* bithumb main: sorted(currencies)
    currency_i,    \* bithumb main: place of `currency` in sorted(currencies), from 1
    net_i,         \* bithumb main: place of `net` in networks_to_try, from 1
    consecutive_auth_errors, \* bithumb main: consecutive_auth_errors
    found_for_currency,      \* bithumb main: found_for_currency
    bithumb_results,         \* bithumb main: results
    bithumb_requests,        \* history: the generate_address requests and their answers
    coins_rows,    \* bybit_ultimate main: coins_rows
    row_i,         \* bybit_ultimate main: place of `row` in coins_rows, from 1
    chain_j,       \* bybit_ultimate main: place of `chain` in chains, from 1
    ult_attempt,   \* bybit_ultimate main: attempt
    ult_results,   \* bybit_ultimate main: results
    ult_requests,  \* history: the get_deposit_address requests and their answers
    coins_data,    \* bybit_deposit main: coins_data
    item_i,        \* bybit_deposit main: place of `item` in coins_data, from 1
    info_j,        \* bybit_deposit main: place of `chain_info` in chains_info, from 1
    dep_results,   \* bybit_deposit main: results
    dep_requests   \* history: the get_deposit_address requests and their answers

callvars == <<path, query_string, attempt, now, ts, req, resp, sleep_ms, sent,
              sleeps, retriable_seen, outcome, total_sent>>
mainvars == <<pc, api_key, api_secret, include_suspended, coin_rows, coin_chain_idx,
              coins, i, records, failures, call_log, exported, exit_code>>
twinvars == <<run, backend, first>>
signvars == <<query_params, reordered, bithumb_tokens, upbit_tokens>>
\* the state of the other scripts of the repository
bithumbvars == <<currencies, currency_i, net_i, consecutive_auth_errors,
                 found_for_currency, bithumb_results, bithumb_requests>>
ultimatevars == <<coins_rows, row_i, chain_j, ult_attempt, ult_results, ult_requests>>
depositvars == <<coins_data, item_i, info_j, dep_results, dep_requests>>
othervars == <<signvars, bithumbvars, ultimatevars, depositvars>>
\* the state of bybit_scanner_final.py
scanvars == <<mainvars, callvars, twinvars>>
vars == <<mainvars, callvars, twinvars, othervars>>

\* no token is being signed
SignIdle ==
    /\ query_params = <<>>
    /\ reordered = <<>>
    /\ bithumb_tokens = <<>>
    /\ upbit_tokens = <<>>

\* bithumb_deposit_scanner.py is not running
BithumbIdle ==
    /\ currencies = <<>>
    /\ currency_i = 0
    /\ net_i = 0
    /\ consecutive_auth_errors = 0
    /\ found_for_currency = FALSE
    /\ bithumb_results = <<>>
    /\ bithumb_requests = <<>>

\* bybit_ultimate_scanner.py is not running
UltimateIdle ==
    /\ coins_rows = <<>>
    /\ row_i = 0
    /\ chain_j = 0
    /\ ult_attempt = 0
    /\ ult_results = <<>>
    /\ ult_requests = <<>>

\* bybit_deposit_scanner.py is not running
DepositIdle ==
    /\ coins_data = <<>>
    /\ item_i = 0
    /\ info_j = 0
    /\ dep_results = <<>>
    /\ dep_requests = <<>>

\* no other script is running
OthersIdle == SignIdle /\ BithumbIdle /\ UltimateIdle /\ DepositIdle

---------------------------------------------------------------------------
(* Python values *)

None == "<None>"
Missing == "<missing>"

\* Python truthiness of the values the model uses
Falsy(v) == v \in {None, Missing, "", "i:0"}

\* d.get(k), already looked up: a missing key reads as None
Get(v) == IF v = Missing THEN None ELSE v

\* d.get(k, default), already looked up
GetOr(v, default) == IF v = Missing THEN default ELSE v

\* a or b
Or(a, b) == IF Falsy(a) THEN b ELSE a

Min(a, b) == IF a < b THEN a ELSE b
Max(a, b) == IF a > b THEN a ELSE b

RECURSIVE Pow2(_)
Pow2(n) == IF n = 0 THEN 1 ELSE 2 * Pow2(n - 1)

---------------------------------------------------------------------------
(* Program constants of _request_get *)

max_retries == 8
RateLimitCode == 10006
RetryCodes == {10002, 10003, 10004, 10005}
DefaultSleepMs == 1000
MinResetSleepMs == 500
ResetMarginMs == 200
RateBaseMs == 800
RateCapMs == 8000
AuthBaseMs == 400
AuthCapMs == 2000
recv_window == "5000"
base_url == "https://api.bybit.com"
CoinInfoPath == "/v5/asset/coin/query-info"
AddressPath == "/v5/asset/deposit/query-address"
PacingMs == 50

(* Bounds of the model *)

\* the clock at the start of a logical call
Epoch == 0
\* the grain of the model's clock, ms: every delay of _request_get is a multiple of it
TickMs == AuthBaseMs \div 4
\* duration of one HTTP round trip, in ticks
RoundTripTicks == 1
RoundTripMs == RoundTripTicks * TickMs
\* how far the server's reset timestamp may lie from the clock, in steps of ResetStepMs
MaxResetSteps == 1
ResetStepMs == 10 * TickMs

---------------------------------------------------------------------------
(* The server's answers to one physical request *)

\* X-Bapi-Limit-Reset-Timestamp as resp.headers.get returns it: absent (None),
\* the empty string, a string that is no integer, or an integer of ms
AbsentHeader == [t |-> "absent", v |-> 0]
EmptyHeader == [t |-> "empty", v |-> 0]
TextHeader == [t |-> "text", v |-> 0]
IntHeader(n) == [t |-> "int", v |-> n]

ResetDeltas == {d * ResetStepMs : d \in (0 - MaxResetSteps)..MaxResetSteps}
ResetHeaders(arrival) ==
    {AbsentHeader, EmptyHeader, TextHeader} \cup {IntHeader(arrival + d) : d \in ResetDeltas}

\* retCodes that no branch of _request_get names (parameter error, invalid coin)
OtherCodes == {10001, 131002}

RetMsg(code) ==
    CASE code = 0 -> "OK"
      [] code = 10001 -> "params error"
      [] code = 10002 -> "invalid request, please check your server timestamp"
      [] code = 10003 -> "API key is invalid"
      [] code = 10004 -> "error sign"
      [] code = 10005 -> "permission denied"
      [] code = 10006 -> "too many visits"
      [] OTHER -> "coin not supported"

JsonResponse(code, reset, result) ==
    [kind |-> "json", status |-> 200, retCode |-> code, retMsg |-> RetMsg(code),
     reset |-> reset, result |-> result]
\* a body that resp.json() cannot parse (an HTML error page of a gateway)
NonJsonResponse ==
    [kind |-> "nonjson", status |-> 502, retCode |-> 0, retMsg |-> "",
     reset |-> AbsentHeader, result |-> [null |-> TRUE, rows |-> <<>>, chains |-> <<>>]]
\* sess.get raises (connection error, timeout): there is no response
TransportException ==
    [kind |-> "exception", status |-> 0, retCode |-> 0, retMsg |-> "",
     reset |-> AbsentHeader, result |-> [null |-> TRUE, rows |-> <<>>, chains |-> <<>>]]
NoResponse ==
    [kind |-> "none", status |-> 0, retCode |-> 0, retMsg |-> "",
     reset |-> AbsentHeader, result |-> [null |-> TRUE, rows |-> <<>>, chains |-> <<>>]]

---------------------------------------------------------------------------
(* BybitV5Client *)

\* _now_ms: the clock reading
_now_ms == now

\* (mutant) the recv-window is put before the api key in the signed string
_sign_get_WindowFirst(timestamp_ms, qs) ==
    [hmac_key |-> api_secret, prehash |-> <<timestamp_ms, recv_window, api_key, qs>>]

\* _sign_get: HMAC-SHA256 is kept symbolic, as the key and the message it is applied to
_sign_get(timestamp_ms, qs) ==
    [hmac_key |-> api_secret, prehash |-> <<timestamp_ms, api_key, recv_window, qs>>]

_headers(timestamp_ms, signature) ==
    [X_BAPI_API_KEY |-> api_key, X_BAPI_TIMESTAMP |-> timestamp_ms,
     X_BAPI_RECV_WINDOW |-> recv_window, X_BAPI_SIGN |-> signature,
     X_BAPI_SIGN_TYPE |-> "2"]

\* urlencode(params): "k=v" joined by "&", the pairs in the dict's order
RECURSIVE UrlEncode(_)
UrlEncode(params) ==
    IF params = <<>> THEN <<>>
    ELSE <<params[1][1], "=", params[1][2]>>
         \o (IF Len(params) = 1 THEN <<>> ELSE <<"&">> \o UrlEncode(Tail(params)))

\* the url of the request: f"{base_url}{path}" and "?query_string" when there is one
Url(p, qs) == [base |-> base_url, path |-> p, query |-> qs]

\* (mutant) the loop runs once more than max_retries
InRangeOffByOne(a) == a <= max_retries

\* no request has been sent yet
NoRequest ==
    [url |-> [base |-> "", path |-> "", query |-> <<>>],
     headers |-> [X_BAPI_API_KEY |-> "", X_BAPI_TIMESTAMP |-> 0, X_BAPI_RECV_WINDOW |-> "",
                  X_BAPI_SIGN |-> [hmac_key |-> "", prehash |-> <<>>],
                  X_BAPI_SIGN_TYPE |-> ""]]

\* for attempt in range(max_retries)
InRange(a) == a < max_retries

\* (mutant) the timestamp is read once, before the loop
StaleTimestamp == IF sent = 0 THEN _now_ms ELSE ts

\* the timestamp that attempt signs with: read from the clock inside the loop body
AttemptTimestamp == _now_ms

\* (mutant) every non-zero retCode is retried
ClassifyRetryAll(r) ==
    CASE r.kind = "exception" -> "transport"
      [] r.kind = "nonjson" -> "non_json"
      [] r.retCode = 0 -> "return"
      [] r.retCode = RateLimitCode -> "rate_limited"
      [] OTHER -> "retry"

\* the branch of the loop body a response takes
Classify(r) ==
    CASE r.kind = "exception" -> "transport"
      [] r.kind = "nonjson" -> "non_json"
      [] r.retCode = 0 -> "return"
      [] r.retCode = RateLimitCode -> "rate_limited"
      [] r.retCode \in RetryCodes -> "retry"
      [] OTHER -> "terminal"

\* (mutant) the exponential backoff without its cap
UncappedFallbackMs(a) == RateBaseMs * Pow2(a)

\* min(8.0, 0.8 * (2 ** attempt))
FallbackSleepMs(a) == Min(RateCapMs, RateBaseMs * Pow2(a))

\* (mutant) the wait until the reset without its floor
ResetSleepNoFloor(reset_ms, now_ms) == (reset_ms - now_ms) + ResetMarginMs

\* max(0.5, (reset_ms - now_ms) / 1000.0 + 0.2)
ResetSleepMs(reset_ms, now_ms) == Max(MinResetSleepMs, (reset_ms - now_ms) + ResetMarginMs)

\* sleep_s of the retCode == 10006 branch
RateLimitSleepMs(reset, now_ms, a) ==
    IF reset.t \in {"text", "int"}
    THEN IF reset.t = "int" THEN ResetSleepMs(reset.v, now_ms) ELSE DefaultSleepMs
    ELSE FallbackSleepMs(a)

\* min(2.0, 0.4 * (2 ** attempt))
AuthSleepMs(a) == Min(AuthCapMs, AuthBaseMs * Pow2(a))

NoData == [null |-> TRUE, rows |-> <<>>, chains |-> <<>>]
NoOutcome == [kind |-> "none", tag |-> "", retCode |-> 0, retMsg |-> "", data |-> NoData]
\* (mutant) the payload is dropped
ReturnNothing(data) == [kind |-> "return", tag |-> "", retCode |-> 0, retMsg |-> "", data |-> NoData]

\* return data
Return(data) == [kind |-> "return", tag |-> "", retCode |-> 0, retMsg |-> "", data |-> data]
Raise(tag, code, msg) ==
    [kind |-> "raise", tag |-> tag, retCode |-> code, retMsg |-> msg, data |-> NoData]

\* (mutant) the error does not say what the exchange answered
TerminalErrorNoCode(r) == Raise("bybit_error", 0, "")

\* raise RuntimeError(f"Bybit error retCode={ret_code}, retMsg={data.get('retMsg')}, url={url}")
TerminalError(r) == Raise("bybit_error", r.retCode, r.retMsg)
\* (mutant) a body that cannot be parsed is taken for an empty answer
NonJsonAsEmpty(r) == [kind |-> "return", tag |-> "", retCode |-> 0, retMsg |-> "", data |-> NoData]

\* raise RuntimeError(f"Non-JSON response {resp.status_code}: {resp.text[:200]}")
NonJsonError(r) == Raise("non_json", r.status, "")
\* raise RuntimeError(f"Failed after retries: {url}")
ExhaustedError == Raise("failed_after_retries", 0, "")
\* the exception sess.get raised leaves _request_get as it is
TransportError == Raise("transport", 0, "")

\* (mutant) the function falls off the end of the loop and returns None
AfterContinueFallsThrough(a) ==
    IF a + 1 < max_retries THEN NoOutcome
    ELSE [kind |-> "return", tag |-> "", retCode |-> 0, retMsg |-> "", data |-> NoData]

\* what follows a `continue`: the next iteration, or the raise after the loop
AfterContinue(a) == IF InRange(a + 1) THEN NoOutcome ELSE ExhaustedError

\* the start of _request_get: params, query_string, url
BeginCall(p, params) ==
    /\ path' = p
    /\ query_string' = UrlEncode(params)
    /\ attempt' = 0
    /\ now' = Epoch
    /\ sent' = 0
    /\ sleeps' = 0
    /\ retriable_seen' = 0
    /\ outcome' = NoOutcome
    /\ resp' = NoResponse
    /\ UNCHANGED <<ts, req, sleep_ms, total_sent>>

\* one iteration of the loop of _request_get, the server answering r
Attempt(r) ==
    /\ pc \in {"coin_info", "address", "retry"}
    /\ outcome.kind = "none"
    /\ InRange(attempt)
    /\ LET t == AttemptTimestamp
           sig == _sign_get(t, query_string)
           arrival == now + RoundTripMs
           branch == Classify(r)
           nap == CASE branch = "rate_limited" -> RateLimitSleepMs(r.reset, arrival, attempt)
                    [] branch = "retry" -> AuthSleepMs(attempt)
                    [] OTHER -> 0
       IN /\ ts' = t
          /\ req' = [url |-> Url(path, query_string), headers |-> _headers(t, sig)]
          /\ resp' = r
          /\ sent' = sent + 1
          /\ total_sent' = total_sent + 1
          /\ IF branch \in {"rate_limited", "retry"}
             THEN /\ sleep_ms' = nap
                  /\ sleeps' = sleeps + 1
                  /\ retriable_seen' = retriable_seen + 1
                  /\ now' = arrival + nap
                  /\ attempt' = attempt + 1
                  /\ outcome' = AfterContinue(attempt)
             ELSE /\ now' = arrival
                  /\ outcome' = CASE branch = "return" -> Return(r.result)
                                   [] branch = "terminal" -> TerminalError(r)
                                   [] branch = "non_json" -> NonJsonError(r)
                                   [] OTHER -> TransportError
                  /\ UNCHANGED <<sleep_ms, sleeps, retriable_seen, attempt>>
    /\ UNCHANGED <<path, query_string, mainvars>>

---------------------------------------------------------------------------
(* The data of the two endpoints *)

\* a chains[] entry of a coin-info row
ChainInfo(chain, deposit) ==
    [chain |-> chain, chainDeposit |-> deposit, chainWithdraw |-> "1",
     confirmation |-> "12", safeConfirmNumber |-> "64", contractAddress |-> Missing,
     depositMin |-> "0.001", withdrawMin |-> "0.01", minAccuracy |-> "8",
     withdrawFee |-> "0.0005", withdrawPercentageFee |-> "i:0"]

\* a row of coin-info
CoinRow(coin, name, chains) == [coin |-> coin, name |-> name, chains |-> chains]

\* a chains[] entry of deposit/query-address
AddressRow(chain, address) ==
    [chain |-> chain, chainType |-> chain, addressDeposit |-> address, tagDeposit |-> "",
     batchReleaseLimit |-> "-1", contractAddress |-> ""]

CatalogA ==
    << CoinRow("BTC", Missing, <<ChainInfo("BTC", "1")>>),
       CoinRow("ETH", Missing, <<ChainInfo("ETH", "1"), ChainInfo("ARBI", "0")>>) >>
CatalogB ==
    << CoinRow("ETH", "Ethereum", <<ChainInfo("ARBI", "i:0"), ChainInfo("ETH", "1")>>),
       CoinRow(Missing, "BTC", <<ChainInfo("BTC", "0")>>) >>
\* one asset in two rows, the rows out of order
CatalogC ==
    << CoinRow("ETH", Missing, <<ChainInfo("ETH", "1")>>),
       CoinRow("BTC", Missing, <<ChainInfo("BTC", "1")>>),
       CoinRow("ETH", "Ethereum", <<ChainInfo("ARBI", "1")>>) >>
Catalogs == {<<>>, CatalogA, CatalogB, CatalogC}

\* what deposit/query-address may hold for a coin
AddressLists(coin) ==
    { <<>>,
      <<AddressRow(coin, "addr-1")>>,
      <<AddressRow(coin, "")>>,
      <<AddressRow(coin, Missing)>>,
      <<AddressRow(Missing, "addr-2")>>,
      <<AddressRow("ARBI", "addr-3"), AddressRow(coin, "addr-1")>>,
      <<AddressRow(coin, "addr-1"), AddressRow("ARBI", "addr-3")>> }

\* the "result" member of a successful answer
Result(rows, chains) == [null |-> FALSE, rows |-> rows, chains |-> chains]
NullResult == [null |-> TRUE, rows |-> <<>>, chains |-> <<>>]

\* the order of str comparison on the symbols of the model
SymbolOrder == <<"BTC", "ETH", "Ethereum">>
Rank(sym) == CHOOSE n \in 1..Len(SymbolOrder) : SymbolOrder[n] = sym

\* (mutant) sorted(set, reverse=True)
RECURSIVE SortedDescending(_)
SortedDescending(S) ==
    IF S = {} THEN <<>>
    ELSE LET most == CHOOSE x \in S : \A y \in S : Rank(x) >= Rank(y)
         IN <<most>> \o SortedDescending(S \ {most})

\* sorted(set): ascending, no duplicates
RECURSIVE Sorted(_)
Sorted(S) ==
    IF S = {} THEN <<>>
    ELSE LET least == CHOOSE x \in S : \A y \in S : Rank(x) <= Rank(y)
         IN <<least>> \o Sorted(S \ {least})

---------------------------------------------------------------------------
(* The catalog and the two endpoint wrappers *)

\* get_coin_info_all: (data.get("result") or {}).get("rows") or []
get_coin_info_all(data) == IF data.null THEN <<>> ELSE data.rows

\* get_master_deposit_addresses followed by result.get("chains") or []
ChainsOf(data) == IF data.null THEN <<>> ELSE data.chains

\* row.get("coin") or row.get("name")
CoinOf(row) == Or(Get(row.coin), Get(row.name))

\* (mutant) idx.setdefault(key, value): the first entry of a key is kept
PutKeepsFirst(d, k, v) ==
    [x \in (DOMAIN d) \cup {k} |-> IF x \in DOMAIN d THEN d[x] ELSE v]

\* idx[key] = value
Put(d, k, v) == [x \in (DOMAIN d) \cup {k} |-> IF x = k THEN v ELSE d[x]]

RECURSIVE IndexChains(_, _, _)
IndexChains(idx, coin, chs) ==
    IF chs = <<>> THEN idx
    ELSE LET ch == Head(chs)
             chain == Get(ch.chain)
         IN IndexChains(IF Falsy(chain) THEN idx ELSE Put(idx, <<coin, chain>>, ch),
                        coin, Tail(chs))

RECURSIVE IndexRows(_, _)
IndexRows(idx, rows) ==
    IF rows = <<>> THEN idx
    ELSE LET row == Head(rows)
             coin == CoinOf(row)
         IN IndexRows(IF Falsy(coin) THEN idx ELSE IndexChains(idx, coin, row.chains),
                      Tail(rows))

build_coin_chain_index(rows) == IndexRows(<<>>, rows)

\* (mutant) the set is iterated as it is, without sorted(): the order of a set of
\* str differs from one process to the next
CoinListUnsorted(rows) ==
    LET list == Sorted({CoinOf(rows[n]) : n \in {m \in 1..Len(rows) : ~Falsy(CoinOf(rows[m]))}})
    IN IF run = 1 THEN list ELSE [k \in 1..Len(list) |-> list[Len(list) + 1 - k]]

\* coins = sorted({(r.get("coin") or r.get("name")) for r in coin_rows if ...})
CoinList(rows) ==
    Sorted({CoinOf(rows[n]) : n \in {m \in 1..Len(rows) : ~Falsy(CoinOf(rows[m]))}})

---------------------------------------------------------------------------
(* main: the join of one coin's address rows with the catalog *)

\* ci = coin_chain_idx.get(key) if key else None, as "is there an entry"
HasEntry(idx, coin, chain) == ~Falsy(chain) /\ <<coin, chain>> \in DOMAIN idx

\* (mutant) only the text "0" counts as suspended, the number 0 does not
SuspendedTextOnly(idx, coin, chain) ==
    /\ HasEntry(idx, coin, chain)
    /\ Get(idx[<<coin, chain>>].chainDeposit) = "0"

\* the suspended test of the join
Suspended(idx, coin, chain) ==
    /\ HasEntry(idx, coin, chain)
    /\ Get(idx[<<coin, chain>>].chainDeposit) \in {"0", "i:0"}

\* (ci.get(field) if ci else "") or ""
Joined(found, v) == Or(IF found THEN Get(v) ELSE "", "")

\* rec = {...}
Record(idx, coin, ch) ==
    LET chain == Get(ch.chain)
        found == HasEntry(idx, coin, chain)
        ci == IF found THEN idx[<<coin, chain>>] ELSE ChainInfo(Missing, Missing)
    IN [coin |-> coin,
        chain |-> Or(chain, ""),
        chainType |-> GetOr(ch.chainType, ""),
        addressDeposit |-> GetOr(ch.addressDeposit, ""),
        tagDeposit |-> GetOr(ch.tagDeposit, ""),
        batchReleaseLimit |-> GetOr(ch.batchReleaseLimit, ""),
        deposit_contractAddress_last6 |-> GetOr(ch.contractAddress, ""),
        coininfo_contractAddress_full |-> Joined(found, ci.contractAddress),
        chainDeposit |-> Joined(found, ci.chainDeposit),
        chainWithdraw |-> Joined(found, ci.chainWithdraw),
        confirmation |-> Joined(found, ci.confirmation),
        safeConfirmNumber |-> Joined(found, ci.safeConfirmNumber),
        depositMin |-> Joined(found, ci.depositMin),
        withdrawMin |-> Joined(found, ci.withdrawMin),
        minAccuracy |-> Joined(found, ci.minAccuracy),
        withdrawFee |-> Joined(found, ci.withdrawFee),
        withdrawPercentageFee |-> Joined(found, ci.withdrawPercentageFee)]

\* (mutant) a row without a catalog entry is skipped
EmitsOnlyMatched(idx, coin, ch, include) ==
    /\ HasEntry(idx, coin, Get(ch.chain))
    /\ ~(Suspended(idx, coin, Get(ch.chain)) /\ ~include)

\* is a record appended for this address row
Emits(idx, coin, ch, include) == ~(Suspended(idx, coin, Get(ch.chain)) /\ ~include)

\* (mutant) every record of a coin carries the address of the coin's first row
JoinRowsFirstAddress(idx, coin, chs, include) ==
    LET kept == SelectSeq(chs, LAMBDA ch : Emits(idx, coin, ch, include))
    IN [k \in 1..Len(kept) |->
           [Record(idx, coin, kept[k]) EXCEPT
               !.addressDeposit = GetOr(chs[1].addressDeposit, "")]]

\* for ch in chains: ... records.append(rec)
RECURSIVE JoinRows(_, _, _, _)
JoinRows(idx, coin, chs, include) ==
    IF chs = <<>> THEN <<>>
    ELSE (IF Emits(idx, coin, Head(chs), include)
          THEN <<Record(idx, coin, Head(chs))>> ELSE <<>>)
         \o JoinRows(idx, coin, Tail(chs), include)

\* export_json(args.out_json, records); export_csv(args.out_csv, records)
NotExported == [written |-> FALSE, records |-> <<>>]
Exported(recs) == [written |-> TRUE, records |-> recs]

\* {"coin": coin, "error": ...}
Failure(coin, error) == [coin |-> coin, error |-> error]

\* if not chains: failures.append({"coin": coin, "error": "no chains returned"})
NoChainsError == <<"no chains returned", 0, "">>

\* (mutant) an empty chain list is passed over in silence
NoChainsIgnored(fs, coin) == fs

NoChainsFailures(fs, coin) == Append(fs, Failure(coin, NoChainsError))

\* str(e) of the exception _request_get raised
ErrorText(e) == <<e.tag, e.retCode, e.retMsg>>

\* (mutant) the exception is swallowed without a failure entry
ExceptSwallowed(fs, coin, e) == fs

\* except Exception as e: failures.append({"coin": coin, "error": str(e)})
ExceptFailures(fs, coin, e) == Append(fs, Failure(coin, ErrorText(e)))

---------------------------------------------------------------------------
(* main *)

IdleMain ==
    /\ api_key = "KEY"
    /\ api_secret = "SECRET"
    /\ include_suspended = FALSE
    /\ coin_rows = <<>>
    /\ coin_chain_idx = <<>>
    /\ coins = <<>>
    /\ i = 0
    /\ records = <<>>
    /\ failures = <<>>
    /\ call_log = <<>>
    /\ exported = NotExported
    /\ exit_code = None

IdleCall ==
    /\ path = ""
    /\ query_string = <<>>
    /\ attempt = 0
    /\ now = Epoch
    /\ ts = 0
    /\ req = NoRequest
    /\ resp = NoResponse
    /\ sleep_ms = 0
    /\ sent = 0
    /\ sleeps = 0
    /\ retriable_seen = 0
    /\ outcome = NoOutcome
    /\ total_sent = 0

\* args parsed; the credential test; the client built; the coin-info call begun
Start ==
    /\ pc = "start"
    /\ IF Falsy(api_key) \/ Falsy(api_secret)
       THEN /\ pc' = "done"
            /\ exit_code' = "i:2"
            /\ UNCHANGED callvars
       ELSE /\ pc' = "coin_info"
            /\ BeginCall(CoinInfoPath, <<>>)
            /\ UNCHANGED exit_code
    /\ UNCHANGED <<api_key, api_secret, include_suspended, coin_rows, coin_chain_idx,
                   coins, i, records, failures, call_log, exported>>

\* (mutant) a failed coin-info call is taken for an empty catalog and main goes on
AfterCoinInfoGoesOn ==
    /\ pc = "coin_info"
    /\ outcome.kind # "none"
    /\ pc' = "loop"
    /\ coin_rows' = (IF outcome.kind = "raise" THEN <<>> ELSE get_coin_info_all(outcome.data))
    /\ coin_chain_idx' = build_coin_chain_index(coin_rows')
    /\ coins' = CoinList(coin_rows')
    /\ UNCHANGED <<api_key, api_secret, include_suspended, i, records, failures, call_log,
                   exported, exit_code, callvars>>

\* coin_rows = client.get_coin_info_all() has ended: the index and the coin list,
\* or the exception leaves main
AfterCoinInfo ==
    /\ pc = "coin_info"
    /\ outcome.kind # "none"
    /\ IF outcome.kind = "raise"
       THEN /\ pc' = "done"
            /\ exit_code' = "i:1"
            /\ UNCHANGED <<coin_rows, coin_chain_idx, coins>>
       ELSE /\ pc' = "loop"
            /\ coin_rows' = get_coin_info_all(outcome.data)
            /\ coin_chain_idx' = build_coin_chain_index(coin_rows')
            /\ coins' = CoinList(coin_rows')
            /\ UNCHANGED exit_code
    /\ UNCHANGED <<api_key, api_secret, include_suspended, i, records, failures, call_log,
                   exported, callvars>>

\* for i, coin in enumerate(coins, start=1): the next coin's call begun, or the loop left
LoopCoin ==
    /\ pc = "loop"
    /\ IF i < Len(coins)
       THEN /\ i' = i + 1
            /\ pc' = "address"
            /\ BeginCall(AddressPath, <<<<"coin", coins[i + 1]>>>>)
       ELSE /\ pc' = "export"
            /\ UNCHANGED <<i, callvars>>
    /\ UNCHANGED <<api_key, api_secret, include_suspended, coin_rows, coin_chain_idx,
                   coins, records, failures, call_log, exported, exit_code>>

\* the rest of the loop body once get_master_deposit_addresses has ended
AfterAddress ==
    /\ pc = "address"
    /\ outcome.kind # "none"
    /\ LET coin == coins[i]
           chains == ChainsOf(outcome.data)
       IN /\ IF outcome.kind = "raise"
             THEN /\ failures' = ExceptFailures(failures, coin, outcome)
                  /\ UNCHANGED records
             ELSE IF chains = <<>>
             THEN /\ failures' = NoChainsFailures(failures, coin)
                  /\ UNCHANGED records
             ELSE /\ records' = records \o JoinRows(coin_chain_idx, coin, chains, include_suspended)
                  /\ UNCHANGED failures
          /\ call_log' = Append(call_log, [coin |-> coin, kind |-> outcome.kind,
                                           chains |-> chains])
    /\ now' = now + PacingMs
    /\ pc' = "loop"
    /\ UNCHANGED <<api_key, api_secret, include_suspended, coin_rows, coin_chain_idx,
                   coins, i, exported, exit_code>>
    /\ UNCHANGED <<path, query_string, attempt, ts, req, resp, sleep_ms, sent, sleeps,
                   retriable_seen, outcome, total_sent>>

\* (mutant) the outputs are written inside the loop, which is entered again
ExportInsideLoop ==
    /\ pc = "export"
    /\ exported' = Exported(records)
    /\ pc' = "loop"
    /\ UNCHANGED <<api_key, api_secret, include_suspended, coin_rows, coin_chain_idx,
                   coins, i, records, failures, call_log, exit_code, callvars>>

\* export_json, export_csv, the summary, return 0
Export ==
    /\ pc = "export"
    /\ exported' = Exported(records)
    /\ exit_code' = "i:0"
    /\ pc' = "done"
    /\ UNCHANGED <<api_key, api_secret, include_suspended, coin_rows, coin_chain_idx,
                   coins, i, records, failures, call_log, callvars>>

\* the coins a catalog of the model can list
BackendCoins == {"BTC", "ETH"}
NoBackend == [catalog |-> NoResponse, address |-> [c \in BackendCoins |-> NoResponse]]
\* records, failures, export and exit code of a run
RunResult(recs, fs, exp, code) ==
    [records |-> recs, failures |-> fs, exported |-> exp, exit_code |-> code]
NoFirst == RunResult(<<>>, <<>>, NotExported, None)

\* the answers of the server during a scan
ScanResponses ==
    (CASE pc = "coin_info" ->
            {JsonResponse(0, AbsentHeader, Result(c, <<>>)) : c \in Catalogs}
       [] pc = "address" ->
            {JsonResponse(0, AbsentHeader, Result(<<>>, a)) : a \in AddressLists(coins[i])}
       [] OTHER -> {})
    \cup {JsonResponse(0, AbsentHeader, NullResult),
          JsonResponse(RateLimitCode, AbsentHeader, NullResult),
          JsonResponse(10001, AbsentHeader, NullResult),
          NonJsonResponse, TransportException}

\* a key left as the template has it ("YOUR_..."), which the sibling scanners refuse
PlaceholderKey == "YOUR_API_KEY"

\* one run of the program, no second-run study
SingleRun ==
    /\ run = 1
    /\ backend = NoBackend
    /\ first = NoFirst

Init ==
    /\ SingleRun
    /\ OthersIdle
    /\ pc = "start"
    /\ api_key \in {None, "", "KEY", PlaceholderKey}
    /\ api_secret \in {None, "SECRET"}
    /\ include_suspended \in BOOLEAN
    /\ coin_rows = <<>>
    /\ coin_chain_idx = <<>>
    /\ coins = <<>>
    /\ i = 0
    /\ records = <<>>
    /\ failures = <<>>
    /\ call_log = <<>>
    /\ exported = NotExported
    /\ exit_code = None
    /\ IdleCall

Next ==
    /\ \/ Start
       \/ \E r \in ScanResponses : Attempt(r)
       \/ AfterCoinInfo
       \/ LoopCoin
       \/ AfterAddress
       \/ Export
    /\ UNCHANGED <<twinvars, othervars>>

Spec == Init /\ [][Next]_vars

\* one invocation with or without credentials; main is sequential code, every HTTP
\* call ends (timeout) and every sleep is finite, so main always takes its next step
ScanFairInit ==
    /\ Init
    /\ api_key \in {None, "KEY"}
    /\ api_secret = "SECRET"
    /\ include_suspended = FALSE

ScanFairSpec == ScanFairInit /\ [][Next]_vars /\ WF_vars(Next)

---------------------------------------------------------------------------
(* The program run twice against a backend whose answers do not change *)

\* what the backend may hold for coin-info
CatalogAnswers ==
    {JsonResponse(0, AbsentHeader, Result(c, <<>>)) : c \in Catalogs}
    \cup {JsonResponse(0, AbsentHeader, NullResult), JsonResponse(10001, AbsentHeader, NullResult)}

\* what the backend may hold for deposit/query-address of a coin
AddressAnswers(coin) ==
    {JsonResponse(0, AbsentHeader, Result(<<>>, a)) : a \in AddressLists(coin)}
    \cup {JsonResponse(0, AbsentHeader, NullResult),
          JsonResponse(RateLimitCode, AbsentHeader, NullResult),
          JsonResponse(10001, AbsentHeader, NullResult),
          NonJsonResponse, TransportException}

Backends ==
    {[catalog |-> c, address |-> [coin \in BackendCoins |-> IF coin = "BTC" THEN b ELSE e]] :
        c \in CatalogAnswers, b \in AddressAnswers("BTC"), e \in AddressAnswers("ETH")}

\* the answer of the backend to the request of the current call
BackendAnswer ==
    CASE pc = "coin_info" -> backend.catalog
      [] pc = "address" -> backend.address[coins[i]]
      [] OTHER -> NoResponse

\* the program is started again: a new process, nothing is kept but the arguments
Rerun ==
    /\ pc = "done"
    /\ run = 1
    /\ run' = 2
    /\ first' = RunResult(records, failures, exported, exit_code)
    /\ pc' = "start"
    /\ coin_rows' = <<>>
    /\ coin_chain_idx' = <<>>
    /\ coins' = <<>>
    /\ i' = 0
    /\ records' = <<>>
    /\ failures' = <<>>
    /\ call_log' = <<>>
    /\ exported' = NotExported
    /\ exit_code' = None
    /\ path' = ""
    /\ query_string' = <<>>
    /\ attempt' = 0
    /\ now' = Epoch
    /\ ts' = 0
    /\ req' = NoRequest
    /\ resp' = NoResponse
    /\ sleep_ms' = 0
    /\ sent' = 0
    /\ sleeps' = 0
    /\ retriable_seen' = 0
    /\ outcome' = NoOutcome
    /\ total_sent' = 0
    /\ UNCHANGED <<api_key, api_secret, include_suspended, backend, othervars>>

TwinInit ==
    /\ OthersIdle
    /\ run = 1
    /\ backend \in Backends
    /\ first = NoFirst
    /\ pc = "start"
    /\ api_key = "KEY"
    /\ api_secret = "SECRET"
    /\ include_suspended \in BOOLEAN
    /\ coin_rows = <<>>
    /\ coin_chain_idx = <<>>
    /\ coins = <<>>
    /\ i = 0
    /\ records = <<>>
    /\ failures = <<>>
    /\ call_log = <<>>
    /\ exported = NotExported
    /\ exit_code = None
    /\ IdleCall

TwinNext ==
    \/ /\ \/ Start
          \/ Attempt(BackendAnswer)
          \/ AfterCoinInfo
          \/ LoopCoin
          \/ AfterAddress
          \/ Export
       /\ UNCHANGED <<twinvars, othervars>>
    \/ Rerun

TwinSpec == TwinInit /\ [][TwinNext]_vars

---------------------------------------------------------------------------
(* The token signers: BithumbClient._get_token (bithumb_deposit_scanner.py)  *)
(* and UpbitClient._get_token (upbit_deposit_scanner.py and _v2.py, the same *)
(* code).  A dict is the sequence of its <<key, value>> items in insertion   *)
(* order; a str is the sequence of its pieces; a digest is written as the    *)
(* text it was taken of, so that two digests are equal exactly when the      *)
(* texts are.                                                                *)

ParamKeys == {"currency", "net_type", "page"}
ParamValues == {"BTC", "ETH"}
\* the order of str comparison on the keys
KeyOrder == <<"currency", "net_type", "page">>
KeyRank(k) == CHOOSE n \in 1..Len(KeyOrder) : KeyOrder[n] = k

\* the dicts over ParamKeys: items with distinct keys, in insertion order
ParamDicts ==
    {d \in UNION {[1..n -> ParamKeys \X ParamValues] : n \in 0..Cardinality(ParamKeys)} :
        \A m, n \in DOMAIN d : m # n => d[m][1] # d[n][1]}

\* the insertion orders of the items of a dict
Orders(d) ==
    {[n \in DOMAIN d |-> d[f[n]]] :
        f \in {g \in [DOMAIN d -> DOMAIN d] : \A m, n \in DOMAIN d : m # n => g[m] # g[n]}}

\* (mutant) the items are left in insertion order
ItemsAsInserted(items) == items

\* sorted(query_params.items())
RECURSIVE SortedItems(_)
SortedItems(items) ==
    IF items = <<>> THEN <<>>
    ELSE LET least == CHOOSE n \in DOMAIN items :
                          \A m \in DOMAIN items : KeyRank(items[n][1]) <= KeyRank(items[m][1])
         IN <<items[least]>>
            \o SortedItems([n \in 1..(Len(items) - 1) |->
                                IF n < least THEN items[n] ELSE items[n + 1]])

\* urlencode(items): "k=v" joined by "&", in the order of the items
RECURSIVE urlencode(_)
urlencode(items) ==
    IF items = <<>> THEN <<>>
    ELSE <<items[1][1], "=", items[1][2]>>
         \o (IF Len(items) = 1 THEN <<>> ELSE <<"&">> \o urlencode(Tail(items)))

\* hashlib.sha512(text).hexdigest()
Sha512(text) == <<"sha512">> \o text
\* the payload has no query_hash
NoHash == <<>>

\* jwt.encode(payload, secret_key, algorithm='HS256')
JwtEncode(payload, secret) == [payload |-> payload, secret |-> secret, alg |-> "HS256"]

\* str(uuid.uuid4())
Nonces == {"uuid-1", "uuid-2"}

\* BithumbClient._get_token
bithumb_get_token(params, nonce) ==
    JwtEncode([access_key |-> api_key, nonce |-> nonce, timestamp |-> now,
               query_hash |-> IF params = <<>> THEN NoHash
                              ELSE Sha512(urlencode(SortedItems(params))),
               query_hash_alg |-> IF params = <<>> THEN "" ELSE "SHA512"],
              api_secret)

\* UpbitClient._get_token
upbit_get_token(params, nonce) ==
    JwtEncode([access_key |-> api_key, nonce |-> nonce, timestamp |-> 0,
               query_hash |-> IF params = <<>> THEN NoHash
                              ELSE Sha512(urlencode(params)),
               query_hash_alg |-> IF params = <<>> THEN "" ELSE "SHA512"],
              api_secret)

SignInit ==
    /\ SingleRun
    /\ pc = "sign"
    /\ IdleMain
    /\ IdleCall
    /\ query_params \in ParamDicts
    /\ reordered \in Orders(query_params)
    /\ bithumb_tokens = <<>>
    /\ upbit_tokens = <<>>
    /\ BithumbIdle
    /\ UltimateIdle
    /\ DepositIdle

\* the Bithumb client signs a request with the parameters, and one with the same
\* parameters inserted in the other order
BithumbSign ==
    /\ pc = "sign"
    /\ bithumb_tokens = <<>>
    /\ \E n1, n2 \in Nonces :
          bithumb_tokens' = <<bithumb_get_token(query_params, n1),
                              bithumb_get_token(reordered, n2)>>
    /\ UNCHANGED <<scanvars, bithumbvars, ultimatevars, depositvars, query_params, reordered, upbit_tokens>>

\* the Upbit client does the same
UpbitSign ==
    /\ pc = "sign"
    /\ upbit_tokens = <<>>
    /\ \E n1, n2 \in Nonces :
          upbit_tokens' = <<upbit_get_token(query_params, n1),
                            upbit_get_token(reordered, n2)>>
    /\ UNCHANGED <<scanvars, bithumbvars, ultimatevars, depositvars, query_params, reordered, bithumb_tokens>>

SignNext == BithumbSign \/ UpbitSign

SignSpec == SignInit /\ [][SignNext]_vars

---------------------------------------------------------------------------
(* bithumb_deposit_scanner.py: main, from the loop over the currencies on *)

MAX_AUTH_ERRORS == 3

\* COMMON_NETWORKS, its first three entries
COMMON_NETWORKS == <<"ERC20", "BEP20", "TRC20">>

\* sorted(currencies) of the markets of the model
BithumbCurrencies == <<"BTC", "ETH">>

\* networks_to_try = list(dict.fromkeys([currency] + COMMON_NETWORKS))
networks_to_try(currency) ==
    <<currency>> \o SelectSeq(COMMON_NETWORKS, LAMBDA n : n # currency)

\* what client.generate_address returns: a dict with deposit_address, a dict with
\* error.message, or None (HTTP error, exception)
AddressAnswer == [kind |-> "address", message |-> ""]
ErrorAnswer(msg) == [kind |-> "error", message |-> msg]
NoneAnswer == [kind |-> "none", message |-> ""]
GenerateAnswers ==
    {AddressAnswer, NoneAnswer, ErrorAnswer("invalid net_type"), ErrorAnswer("invalid_jwt"),
     ErrorAnswer("too many requests")}

\* "net_type" in msg or "value" in msg
IsNetTypeMessage(msg) == msg = "invalid net_type"
\* "invalid_jwt" in msg or "unauthorized" in msg.lower()
IsAuthMessage(msg) == msg = "invalid_jwt"

\* the result row of a found address
FoundRow(currency, net) ==
    [currency |-> currency, net_type |-> net, address |-> "addr-1",
     response_msg |-> "Success"]
\* the result row of a currency without address
UnknownRow(currency) ==
    [currency |-> currency, net_type |-> "Unknown", address |-> None,
     response_msg |-> "No valid network found"]

BithumbInit ==
    /\ SingleRun
    /\ SignIdle
    /\ UltimateIdle
    /\ DepositIdle
    /\ IdleMain
    /\ IdleCall
    /\ pc = "bithumb_currency"
    /\ currencies = BithumbCurrencies
    /\ currency_i = 0
    /\ net_i = 0
    /\ consecutive_auth_errors = 0
    /\ found_for_currency = FALSE
    /\ bithumb_results = <<>>
    /\ bithumb_requests = <<>>

\* for i, currency in enumerate(sorted(currencies)): the stop test, the next currency
BithumbNextCurrency ==
    /\ pc = "bithumb_currency"
    /\ IF currency_i >= Len(currencies) \/ consecutive_auth_errors >= MAX_AUTH_ERRORS
       THEN /\ pc' = "bithumb_save"
            /\ UNCHANGED <<currency_i, net_i, found_for_currency>>
       ELSE /\ pc' = "bithumb_net"
            /\ currency_i' = currency_i + 1
            /\ net_i' = 0
            /\ found_for_currency' = FALSE
    /\ UNCHANGED <<currencies, consecutive_auth_errors, bithumb_results, bithumb_requests>>

\* else: consecutive_auth_errors = 0, after the loop over the networks
CounterAfterCurrency(found, count) == IF found THEN 0 ELSE count

\* for net in networks_to_try: one generate_address request, answered r
BithumbTryNet(r) ==
    /\ pc = "bithumb_net"
    /\ net_i < Len(networks_to_try(currencies[currency_i]))
    /\ LET currency == currencies[currency_i]
           net == networks_to_try(currency)[net_i + 1]
           auth == r.kind = "error" /\ ~IsNetTypeMessage(r.message) /\ IsAuthMessage(r.message)
       IN /\ net_i' = net_i + 1
          /\ bithumb_requests' = Append(bithumb_requests,
                                        [currency |-> currency, net_type |-> net, answer |-> r])
          /\ IF r.kind = "address"
             THEN /\ bithumb_results' = Append(bithumb_results, FoundRow(currency, net))
                  /\ found_for_currency' = TRUE
             ELSE UNCHANGED <<bithumb_results, found_for_currency>>
          /\ consecutive_auth_errors' =
                 (IF auth THEN consecutive_auth_errors + 1 ELSE consecutive_auth_errors)
          /\ pc' = (IF auth /\ consecutive_auth_errors' >= MAX_AUTH_ERRORS
                    THEN "bithumb_after" ELSE "bithumb_net")
    /\ UNCHANGED <<currencies, currency_i>>

\* the loop over the networks has run out
BithumbNetsDone ==
    /\ pc = "bithumb_net"
    /\ net_i >= Len(networks_to_try(currencies[currency_i]))
    /\ pc' = "bithumb_after"
    /\ UNCHANGED bithumbvars

\* if not found_for_currency: results.append(...) else: consecutive_auth_errors = 0
BithumbAfterNets ==
    /\ pc = "bithumb_after"
    /\ bithumb_results' = (IF found_for_currency THEN bithumb_results
                           ELSE Append(bithumb_results, UnknownRow(currencies[currency_i])))
    /\ consecutive_auth_errors' =
           CounterAfterCurrency(found_for_currency, consecutive_auth_errors)
    /\ pc' = "bithumb_currency"
    /\ UNCHANGED <<currencies, currency_i, net_i, found_for_currency, bithumb_requests>>

\* df.to_csv(...)
BithumbSave ==
    /\ pc = "bithumb_save"
    /\ pc' = "bithumb_done"
    /\ UNCHANGED bithumbvars

BithumbNext ==
    /\ \/ BithumbNextCurrency
       \/ \E r \in GenerateAnswers : BithumbTryNet(r)
       \/ BithumbNetsDone
       \/ BithumbAfterNets
       \/ BithumbSave
    /\ UNCHANGED <<api_key, api_secret, include_suspended, coin_rows, coin_chain_idx, coins,
                   i, records, failures, call_log, exported, exit_code, callvars, twinvars,
                   signvars, ultimatevars, depositvars>>

BithumbSpec == BithumbInit /\ [][BithumbNext]_vars

---------------------------------------------------------------------------
(* bybit_ultimate_scanner.py: main, from the loop over coins_rows on *)

\* max_retries = 3
ult_max_retries == 3

\* a row of coin-info as this scanner reads it: row['coin'], chain.get('chainType')
UltRow(coin, chain_types) == [coin |-> coin, chains |-> chain_types]

\* the catalogs: every pair once; one pair in two chain entries
UltCatalogs ==
    { << UltRow("BTC", <<"BTC", Missing>>), UltRow("ETH", <<"ERC20">>) >>,
      << UltRow("ETH", <<"ERC20", "ERC20">>) >> }

\* what client.get_deposit_address returns: retCode 0 with rows (the first with or
\* without address, or none), retCode 0 with "result": null, another retCode, or
\* None (the request failed)
UltAnswer(code, shape) == [retCode |-> code, shape |-> shape]
UltAnswers ==
    {UltAnswer(0, "address"), UltAnswer(0, "no_address"), UltAnswer(0, "no_rows"),
     UltAnswer(0, "null_result"), UltAnswer(10002, "error"), UltAnswer(10001, "error"),
     UltAnswer(0, "none")}

\* (mutant) every error answer is retried
UltClassifyRetryErrors(r) ==
    CASE r.shape = "none" -> "checked"
      [] r.retCode = 0 /\ r.shape = "null_result" -> "exception"
      [] r.retCode = 0 /\ r.shape = "address" -> "found"
      [] r.retCode = 0 -> "checked"
      [] OTHER -> "retry"

\* the branch of the retry loop an answer takes: found (append, break), checked
\* (break), retry (sleep, continue), exception (None.get raises: sleep, next attempt)
UltClassify(r) ==
    CASE r.shape = "none" -> "checked"
      [] r.retCode = 0 /\ r.shape = "null_result" -> "exception"
      [] r.retCode = 0 /\ r.shape = "address" -> "found"
      [] r.retCode = 0 -> "checked"
      [] r.retCode = 10002 -> "retry"
      [] OTHER -> "checked"

UltimateInit ==
    /\ SingleRun
    /\ SignIdle
    /\ BithumbIdle
    /\ DepositIdle
    /\ IdleMain
    /\ IdleCall
    /\ pc = "ult_chain"
    /\ coins_rows \in UltCatalogs
    /\ row_i = 0
    /\ chain_j = 0
    /\ ult_attempt = 0
    /\ ult_results = <<>>
    /\ ult_requests = <<>>

\* for row in coins_rows: for chain in chains: the next chain entry, or the next
\* row, or the end of the loops; an entry without chainType is passed over
UltNextChain ==
    /\ pc = "ult_chain"
    /\ IF row_i >= 1 /\ chain_j < Len(coins_rows[row_i].chains)
       THEN /\ chain_j' = chain_j + 1
            /\ pc' = (IF Falsy(Get(coins_rows[row_i].chains[chain_j + 1]))
                      THEN "ult_chain" ELSE "ult_try")
            /\ UNCHANGED row_i
       ELSE IF row_i < Len(coins_rows)
       THEN /\ row_i' = row_i + 1
            /\ chain_j' = 0
            /\ pc' = "ult_chain"
       ELSE /\ pc' = "ult_save"
            /\ UNCHANGED <<row_i, chain_j>>
    /\ ult_attempt' = 0
    /\ UNCHANGED <<coins_rows, ult_results, ult_requests>>

\* for attempt in range(max_retries): one get_deposit_address request, answered r
UltAttempt(r) ==
    /\ pc = "ult_try"
    /\ ult_attempt < ult_max_retries
    /\ LET coin == coins_rows[row_i].coin
           chain_type == coins_rows[row_i].chains[chain_j]
           branch == UltClassify(r)
       IN /\ ult_requests' = Append(ult_requests,
                                    [entry |-> <<row_i, chain_j>>, coin |-> coin,
                                     chain_type |-> chain_type, answer |-> r])
          /\ ult_results' = (IF branch = "found"
                             THEN Append(ult_results,
                                         [entry |-> <<row_i, chain_j>>, coin |-> coin,
                                          chain_type |-> chain_type, address |-> "addr-1"])
                             ELSE ult_results)
          /\ IF branch \in {"retry", "exception"}
             THEN /\ ult_attempt' = ult_attempt + 1
                  /\ pc' = (IF ult_attempt + 1 < ult_max_retries THEN "ult_try" ELSE "ult_chain")
             ELSE /\ pc' = "ult_chain"
                  /\ UNCHANGED ult_attempt
    /\ UNCHANGED <<coins_rows, row_i, chain_j>>

\* if results: df.to_csv(...)
UltSave ==
    /\ pc = "ult_save"
    /\ pc' = "ult_done"
    /\ UNCHANGED ultimatevars

UltimateNext ==
    /\ \/ UltNextChain
       \/ \E r \in UltAnswers : UltAttempt(r)
       \/ UltSave
    /\ UNCHANGED <<api_key, api_secret, include_suspended, coin_rows, coin_chain_idx, coins,
                   i, records, failures, call_log, exported, exit_code, callvars, twinvars,
                   signvars, bithumbvars, depositvars>>

UltimateSpec == UltimateInit /\ [][UltimateNext]_vars

---------------------------------------------------------------------------
(* bybit_deposit_scanner.py: main, from the loop over coins_data on *)

\* a chains entry as this scanner reads it: chainType, chain, chainDeposit
DepChain(chain_type, chain, deposit) ==
    [chainType |-> chain_type, chain |-> chain, chainDeposit |-> deposit]
DepItem(coin, chains) == [coin |-> coin, chains |-> chains]

\* the catalogs: deposit enabled and not, an entry named by "chain" only, an entry
\* without name
DepCatalogs ==
    { << DepItem("BTC", <<DepChain("BTC", "BTC", "1"), DepChain(Missing, Missing, "1")>>),
         DepItem("ETH", <<DepChain("ERC20", "ETH", "1"), DepChain("ARBI", "ARBI", "0"),
                          DepChain(Missing, "BSC", "1")>>) >>,
      << DepItem("ETH", <<DepChain("ERC20", "ETH", "1"), DepChain("TRC20", "TRX", "1")>>),
         DepItem("BTC", <<DepChain("BTC", "BTC", "1")>>) >> }

\* what client.get_deposit_address returns: retCode 0 with rows or without, another
\* retCode, or None
DepAnswer(code, rows) == [none |-> FALSE, retCode |-> code, rows |-> rows]
DepNone == [none |-> TRUE, retCode |-> 0, rows |-> <<>>]
DepAnswers ==
    {DepAnswer(0, <<[address |-> "addr-1"]>>),
     DepAnswer(0, <<[address |-> "addr-1"], [address |-> "addr-2"]>>),
     DepAnswer(0, <<>>), DepAnswer(10001, <<>>), DepNone}

\* target_chain = chain_info.get('chainType') or, failing that, chain_info.get('chain')
target_chain(info) == Or(Get(info.chainType), Get(info.chain))

\* the name chain_type of line 159: main binds no such name, nor does the module,
\* so reading it raises NameError
chain_type_bound == FALSE

DepositInit ==
    /\ SingleRun
    /\ SignIdle
    /\ BithumbIdle
    /\ UltimateIdle
    /\ IdleMain
    /\ IdleCall
    /\ pc = "dep_chain"
    /\ coins_data \in DepCatalogs
    /\ item_i = 0
    /\ info_j = 0
    /\ dep_results = <<>>
    /\ dep_requests = <<>>

\* for item in coins_data: for chain_info in chains_info: the next entry, passed over
\* when it has no name or deposits are not '1'; or the next item; or the end
DepNextChain ==
    /\ pc = "dep_chain"
    /\ IF item_i >= 1 /\ info_j < Len(coins_data[item_i].chains)
       THEN LET info == coins_data[item_i].chains[info_j + 1] IN
            /\ info_j' = info_j + 1
            /\ pc' = (IF ~Falsy(target_chain(info)) /\ Get(info.chainDeposit) = "1"
                      THEN "dep_lookup" ELSE "dep_chain")
            /\ UNCHANGED item_i
       ELSE IF item_i < Len(coins_data)
       THEN /\ item_i' = item_i + 1
            /\ info_j' = 0
            /\ pc' = "dep_chain"
       ELSE /\ pc' = "dep_save"
            /\ UNCHANGED <<item_i, info_j>>
    /\ UNCHANGED <<coins_data, dep_results, dep_requests>>

\* addr_resp = client.get_deposit_address(coin, target_chain), answered r, and the
\* rest of the loop body
DepLookup(r) ==
    /\ pc = "dep_lookup"
    /\ LET coin == coins_data[item_i].coin
           chain == target_chain(coins_data[item_i].chains[info_j])
       IN /\ dep_requests' = Append(dep_requests,
                                    [coin |-> coin, chain |-> chain, answer |-> r])
          /\ IF ~r.none /\ r.retCode = 0 /\ r.rows # <<>>
             THEN IF chain_type_bound
                  THEN /\ dep_results' = Append(dep_results,
                                                [coin |-> coin, chain |-> chain,
                                                 address |-> r.rows[1].address])
                       /\ pc' = "dep_chain"
                  ELSE /\ pc' = "dep_crashed"
                       /\ UNCHANGED dep_results
             ELSE /\ pc' = "dep_chain"
                  /\ UNCHANGED dep_results
    /\ UNCHANGED <<coins_data, item_i, info_j>>

\* df.to_csv('bybit_deposit_addresses.csv')
DepSave ==
    /\ pc = "dep_save"
    /\ pc' = "dep_saved"
    /\ UNCHANGED depositvars

DepositNext ==
    /\ \/ DepNextChain
       \/ \E r \in DepAnswers : DepLookup(r)
       \/ DepSave
    /\ UNCHANGED <<api_key, api_secret, include_suspended, coin_rows, coin_chain_idx, coins,
                   i, records, failures, call_log, exported, exit_code, callvars, twinvars,
                   signvars, bithumbvars, ultimatevars>>

DepositSpec == DepositInit /\ [][DepositNext]_vars

---------------------------------------------------------------------------
(* build_coin_chain_index on its own, on every catalog up to MaxRows rows *)

MaxRows == 3

\* the chains[] a row of the catalog may hold: none, one, the same network twice,
\* entries without a network
IndexChainLists ==
    { <<>>,
      <<ChainInfo("ETH", "1")>>,
      <<ChainInfo("ETH", "1"), ChainInfo("ETH", "0")>>,
      <<ChainInfo(Missing, "1"), ChainInfo("ARBI", "1")>>,
      <<ChainInfo("", "0")>> }

\* the rows: with "coin", with "name" only, with both, with neither
IndexRowSet ==
    {CoinRow(id[1], id[2], chs) :
        id \in {<<"BTC", Missing>>, <<Missing, "BTC">>, <<"ETH", "Ethereum">>,
                <<Missing, Missing>>},
        chs \in IndexChainLists}

IndexInputs == UNION {[1..n -> IndexRowSet] : n \in 0..MaxRows}

IndexInit ==
    /\ SingleRun
    /\ OthersIdle
    /\ pc = "index"
    /\ api_key = "KEY"
    /\ api_secret = "SECRET"
    /\ include_suspended = FALSE
    /\ coin_rows \in IndexInputs
    /\ coin_chain_idx = <<>>
    /\ coins = <<>>
    /\ i = 0
    /\ records = <<>>
    /\ failures = <<>>
    /\ call_log = <<>>
    /\ exported = NotExported
    /\ exit_code = None
    /\ IdleCall

\* coin_chain_idx = build_coin_chain_index(coin_rows)
BuildIndex ==
    /\ pc = "index"
    /\ coin_chain_idx' = build_coin_chain_index(coin_rows)
    /\ pc' = "indexed"
    /\ UNCHANGED <<api_key, api_secret, include_suspended, coin_rows, coins, i, records,
                   failures, call_log, exported, exit_code, callvars, twinvars, othervars>>

IndexNext == BuildIndex

IndexSpec == IndexInit /\ [][IndexNext]_vars

---------------------------------------------------------------------------
(* One logical call on its own, against every answer the server can give *)

\* the payload of a successful answer in RetrySpec
RetryPayload == Result(CatalogA, <<AddressRow("BTC", "addr-1")>>)

RetryResponses ==
    LET arrival == now + RoundTripMs IN
    {JsonResponse(0, AbsentHeader, RetryPayload)}
    \cup {JsonResponse(RateLimitCode, h, NullResult) : h \in ResetHeaders(arrival)}
    \cup {JsonResponse(c, AbsentHeader, NullResult) : c \in RetryCodes \cup OtherCodes}
    \cup {NonJsonResponse, TransportException}

RetryInit ==
    /\ SingleRun
    /\ OthersIdle
    /\ pc = "retry"
    /\ IdleMain
    /\ \E c \in {<<CoinInfoPath, <<>>>>, <<AddressPath, <<<<"coin", "BTC">>>>>>} :
          /\ path = c[1]
          /\ query_string = UrlEncode(c[2])
    /\ attempt = 0
    /\ now = Epoch
    /\ ts = 0
    /\ req = NoRequest
    /\ resp = NoResponse
    /\ sleep_ms = 0
    /\ sent = 0
    /\ sleeps = 0
    /\ retriable_seen = 0
    /\ outcome = NoOutcome
    /\ total_sent = 0

RetryNext == (\E r \in RetryResponses : Attempt(r)) /\ UNCHANGED <<twinvars, othervars>>

RetrySpec == RetryInit /\ [][RetryNext]_vars

\* the loop of _request_get always takes its next step: every HTTP call ends (timeout)
RetryFairSpec == RetryInit /\ [][RetryNext]_vars /\ WF_vars(RetryNext)

---------------------------------------------------------------------------
(* Properties of _request_get *)

JsonResp == resp.kind = "json"
\* the clock when the latest response arrived
Arrival == ts + RoundTripMs

\* C1: one logical call issues at most max_retries (8) physical requests, whatever
\* the server answers.
C1_AtMostMaxAttempts == sent <= max_retries

\* C1 witness: a call whose every answer was retried, the last one rate-limited, has
\* sent its 8th request.
C1_Witness ==
    /\ sent = max_retries
    /\ retriable_seen = max_retries
    /\ JsonResp /\ resp.retCode = RateLimitCode

\* C2: a call that returns has sent exactly one request more than the retried answers
\* before the success, returns the payload of that success, and has not slept after
\* it: every sleep belongs to a retried answer and the clock stands at the arrival
\* of the success.
C2_SuccessAfterRetries ==
    outcome.kind = "return" =>
        /\ sent = retriable_seen + 1
        /\ sent <= max_retries
        /\ JsonResp /\ resp.retCode = 0
        /\ outcome.data = resp.result
        /\ sleeps = retriable_seen
        /\ now = Arrival

\* C2 witness: two retried answers, then a success: three requests, payload returned.
C2_Witness ==
    /\ outcome.kind = "return"
    /\ retriable_seen = 2
    /\ sent = 3
    /\ outcome.data = RetryPayload

\* C3 as claimed: an answer whose code is neither 0, nor 10006, nor the timestamp code
\* 10002 is never followed by another request of the same call.
C3_OnlyTimestampRetried ==
    [][(JsonResp /\ resp.retCode \notin {0, 10006, 10002}) => sent' # sent + 1]_vars

\* C3 amended: an answer whose code is neither 0, nor 10006, nor one of 10002..10005
\* is never followed by another request of the same call, and the call has ended
\* with an error.
C3_TerminalNotRetried ==
    [][(JsonResp /\ resp.retCode \notin {0, 10006, 10002, 10003, 10004, 10005})
          => (sent' # sent + 1 /\ outcome.kind = "raise")]_vars

\* C3 witness: a terminal code arrived as the answer to a retry and ended the call.
C3_Witness ==
    /\ JsonResp /\ resp.retCode = 10001
    /\ sent = 2
    /\ outcome.kind = "raise"

\* C4: when the first answer of a call is a terminal error, the call has sent one
\* request, has not slept, and has failed with the exchange's code and message.
C4_FirstTerminal ==
    (JsonResp /\ resp.retCode \notin {0, 10006, 10002, 10003, 10004, 10005}
       /\ retriable_seen = 0) =>
        /\ sent = 1
        /\ sleeps = 0
        /\ now = Arrival
        /\ outcome.kind = "raise"
        /\ outcome.retCode = resp.retCode
        /\ outcome.retMsg = resp.retMsg

\* C4 witness: the first answer is retCode 131002 and the call failed with it.
C4_Witness ==
    /\ sent = 1
    /\ JsonResp /\ resp.retCode = 131002
    /\ outcome.retCode = 131002
    /\ outcome.retMsg = "coin not supported"

\* C5: while every answer of a call has been retried, the call has not returned; with
\* the max_retries-th such answer it has failed as "failed after retries"; and every
\* call ends.
C5_ExhaustionTerminates ==
    /\ [](retriable_seen = sent =>
            /\ sent <= max_retries
            /\ outcome.kind # "return"
            /\ (sent = max_retries =>
                   outcome.kind = "raise" /\ outcome.tag = "failed_after_retries")
            /\ (sent < max_retries => outcome.kind = "none"))
    /\ <>(outcome.kind # "none")

\* C5 witness: 8 retried answers and the call has ended as exhausted.
C5_Witness ==
    /\ retriable_seen = max_retries
    /\ sent = max_retries
    /\ outcome.tag = "failed_after_retries"

\* C6: every physical request is signed with the clock reading of its own attempt,
\* the header and the signed string carry that reading, and from the second attempt
\* on the reading is later than the previous attempt's by at least its round trip
\* and its sleep, so no timestamp is used twice.
C6_FreshTimestamp ==
    [][sent' = sent + 1 =>
          /\ ts' = now
          /\ req'.headers.X_BAPI_TIMESTAMP = ts'
          /\ req'.headers.X_BAPI_SIGN.prehash[1] = ts'
          /\ (sent > 0 => (ts' >= ts + RoundTripMs + sleep_ms /\ ts' > ts))]_vars

\* C6 witness: a third attempt has been signed, later than the first two.
C6_Witness ==
    /\ sent = 3
    /\ req.headers.X_BAPI_TIMESTAMP = ts
    /\ ts >= Epoch + 2 * (RoundTripMs + AuthBaseMs)

\* C7 as claimed: after a rate-limited answer that carries an integer reset
\* timestamp the wait is reset - now + margin.
C7_WaitIsResetMinusNow ==
    (JsonResp /\ resp.retCode = 10006 /\ resp.reset.t = "int")
        => sleep_ms = resp.reset.v - Arrival + ResetMarginMs

\* C7 amended: after a rate-limited answer the wait is max(0.5 s, reset - now + 0.2 s)
\* when the reset header is an integer, 1.0 s when it is a non-empty non-integer, and
\* min(8 s, 0.8 s * 2^attempt) when it is absent or empty; the latter never exceeds 8 s.
C7_RateLimitWait ==
    (JsonResp /\ resp.retCode = 10006) =>
        /\ resp.reset.t = "int" =>
              sleep_ms = Max(500, resp.reset.v - Arrival + 200)
        /\ resp.reset.t = "text" => sleep_ms = 1000
        /\ resp.reset.t \in {"absent", "empty"} =>
              /\ sleep_ms = Min(8000, 800 * Pow2(attempt - 1))
              /\ sleep_ms <= 8000

\* C7 witness: the 5th attempt was rate-limited without a reset header, and the wait
\* is the cap.
C7_Witness ==
    /\ JsonResp /\ resp.retCode = 10006
    /\ resp.reset.t = "absent"
    /\ attempt = 5
    /\ sleep_ms = 8000

---------------------------------------------------------------------------
(* Properties of the scan *)

\* the failures entries of a coin
FailuresOf(coin) == {m \in DOMAIN failures : failures[m].coin = coin}
\* the records of a coin
RecordsOf(coin) == {q \in DOMAIN records : records[q].coin = coin}
\* an address row that the suspended filter lets through
RowKept(coin, row) ==
    \/ include_suspended
    \/ row.chain = Missing
    \/ <<coin, row.chain>> \notin DOMAIN coin_chain_idx
    \/ coin_chain_idx[<<coin, row.chain>>].chainDeposit \notin {"0", "i:0"}
\* how a record shows a field that the address row lacks
Shown(v) == IF v = Missing THEN "" ELSE v
\* the scan has not failed: main is running, or has returned 0
ScanAlive == exit_code \in {None, "i:0"}

\* C8: when the lookup of an asset X has failed, the failures list holds exactly one
\* entry for X and the scan has not failed; once the loop is left every asset of the
\* catalog has been looked up, those after X too; every row a successful lookup of
\* an asset Y returned, and the suspended filter lets through, has its record; and
\* the finished scan has exported the records and returned 0.
C8_PartialFailure ==
    \A n \in DOMAIN call_log :
        call_log[n].kind = "raise" =>
            /\ Cardinality(FailuresOf(call_log[n].coin)) = 1
            /\ ScanAlive
            /\ (pc \in {"export", "done"} =>
                   /\ Len(call_log) = Len(coins)
                   /\ \A k \in DOMAIN coins : call_log[k].coin = coins[k])
            /\ (pc = "done" => (exit_code = "i:0" /\ exported = [written |-> TRUE, records |-> records]))
            /\ \A m \in DOMAIN call_log :
                   call_log[m].kind = "return" =>
                       \A k \in DOMAIN call_log[m].chains :
                           LET row == call_log[m].chains[k] IN
                           RowKept(call_log[m].coin, row) =>
                               \E q \in RecordsOf(call_log[m].coin) :
                                   /\ records[q].chain = Shown(row.chain)
                                   /\ records[q].addressDeposit = Shown(row.addressDeposit)

\* C8 witness: the first asset's lookup failed, the second's succeeded with an
\* address, and the scan is done with one failure and the second asset's record.
C8_Witness ==
    /\ pc = "done"
    /\ Len(call_log) = 2
    /\ call_log[1].kind = "raise"
    /\ call_log[2].kind = "return"
    /\ Len(failures) = 1
    /\ \E q \in RecordsOf(call_log[2].coin) : records[q].addressDeposit = "addr-1"

\* a lookup that succeeded with an empty list of address rows
EmptyLookup(n) == call_log[n].kind = "return" /\ call_log[n].chains = <<>>

\* C9 as claimed: an asset whose lookup succeeded with an empty list of address rows
\* has no entry in the failures list.
C9_EmptyIsNoFailure ==
    \A n \in DOMAIN call_log : EmptyLookup(n) => FailuresOf(call_log[n].coin) = {}

\* C9 amended: an asset whose lookup succeeded with an empty list of address rows has
\* exactly one entry in the failures list, with the error "no chains returned", and no
\* record; the scan has not failed.
C9_EmptyIsRecordedFailure ==
    \A n \in DOMAIN call_log :
        EmptyLookup(n) =>
            /\ Cardinality(FailuresOf(call_log[n].coin)) = 1
            /\ \A m \in FailuresOf(call_log[n].coin) :
                   failures[m].error[1] = "no chains returned"
            /\ RecordsOf(call_log[n].coin) = {}
            /\ ScanAlive

\* C9 witness: a finished scan one of whose lookups returned no rows.
C9_Witness ==
    /\ pc = "done"
    /\ \E n \in DOMAIN call_log : EmptyLookup(n)
    /\ Len(failures) = 1

\* C10 as claimed: every record has a non-empty address string.
C10_NoEmptyAddress ==
    \A q \in DOMAIN records : records[q].addressDeposit \notin {"", None, Missing}

\* the lookups that returned at least one address row
Lookups == {n \in DOMAIN call_log : call_log[n].kind = "return" /\ call_log[n].chains # <<>>}
\* the rows of a lookup whose record would show this network and this address
RowsLike(n, chain, address) ==
    {k \in DOMAIN call_log[n].chains :
        /\ Shown(call_log[n].chains[k].chain) = chain
        /\ Shown(call_log[n].chains[k].addressDeposit) = address}

\* C11: every record's (asset, network, address) is the asset, the network and the
\* address of one row that the lookup of that very asset returned; an asset whose
\* lookup returned nothing has no record.
C11_TripleFromLookup ==
    \A q \in DOMAIN records :
        \E n \in Lookups :
            /\ call_log[n].coin = records[q].coin
            /\ RowsLike(n, records[q].chain, records[q].addressDeposit) # {}

\* C11 witness: a lookup returned two rows with different networks and addresses, and
\* each of the two records carries the address of its own network.
C11_Witness ==
    /\ pc = "done"
    /\ \E n \in Lookups :
           /\ Len(call_log[n].chains) = 2
           /\ \E q1, q2 \in RecordsOf(call_log[n].coin) :
                  /\ records[q1].chain = "ARBI" /\ records[q1].addressDeposit = "addr-3"
                  /\ records[q2].chain = call_log[n].coin
                  /\ records[q2].addressDeposit = "addr-1"

\* the catalog has an entry for the row's (asset, network)
InCatalog(coin, row) == row.chain # Missing /\ <<coin, row.chain>> \in DOMAIN coin_chain_idx
\* that entry has deposits disabled
Disabled(coin, row) == coin_chain_idx[<<coin, row.chain>>].chainDeposit \in {"0", "i:0"}
\* the records of a lookup's row
RecordsOfRow(n, row) ==
    {q \in RecordsOf(call_log[n].coin) :
        /\ records[q].chain = Shown(row.chain)
        /\ records[q].addressDeposit = Shown(row.addressDeposit)}

\* C12: a row whose catalog entry has deposits disabled has no record when
\* include_suspended is false and one record when it is true; a row whose catalog
\* entry has deposits enabled has one record under both settings.
C12_DisabledIffIncluded ==
    \A n \in Lookups :
        \A k \in DOMAIN call_log[n].chains :
            LET row == call_log[n].chains[k]
                coin == call_log[n].coin
            IN InCatalog(coin, row) =>
                   Cardinality(RecordsOfRow(n, row)) =
                       (IF Disabled(coin, row) /\ ~include_suspended THEN 0 ELSE 1)

\* C12 witness: a row whose catalog entry is disabled has its record in a finished
\* scan with include_suspended set.
C12_Witness ==
    /\ pc = "done"
    /\ include_suspended
    /\ \E n \in Lookups :
           \E k \in DOMAIN call_log[n].chains :
               LET row == call_log[n].chains[k] IN
               /\ InCatalog(call_log[n].coin, row)
               /\ Disabled(call_log[n].coin, row)
               /\ RecordsOfRow(n, row) # {}

\* the fields of a record that are read from the catalog entry
CatalogFields(rec) ==
    <<rec.coininfo_contractAddress_full, rec.chainDeposit, rec.chainWithdraw,
      rec.confirmation, rec.safeConfirmNumber, rec.depositMin, rec.withdrawMin,
      rec.minAccuracy, rec.withdrawFee, rec.withdrawPercentageFee>>

\* C13: a row whose (asset, network) has no catalog entry has one record, under both
\* settings of include_suspended, all of whose catalog fields are empty, and the
\* asset has no failures entry.
C13_UnmatchedStillEmitted ==
    \A n \in Lookups :
        \A k \in DOMAIN call_log[n].chains :
            LET row == call_log[n].chains[k]
                coin == call_log[n].coin
            IN ~InCatalog(coin, row) =>
                   /\ Cardinality(RecordsOfRow(n, row)) = 1
                   /\ \A q \in RecordsOfRow(n, row) :
                          \A f \in DOMAIN CatalogFields(records[q]) :
                              CatalogFields(records[q])[f] = ""
                   /\ FailuresOf(coin) = {}

\* C13 witness: a finished scan without include_suspended holds the record of a row
\* whose network the catalog does not list for the asset.
C13_Witness ==
    /\ pc = "done"
    /\ ~include_suspended
    /\ coin_chain_idx # <<>>
    /\ \E n \in Lookups :
           \E k \in DOMAIN call_log[n].chains :
               LET row == call_log[n].chains[k] IN
               /\ row.chain = "ARBI"
               /\ ~InCatalog(call_log[n].coin, row)
               /\ RecordsOfRow(n, row) # {}

\* a catalog value as a record is to show it: null and absent are empty
Held(v) == IF v \in {Missing, None} THEN "" ELSE v

\* C14 as claimed: a record whose (asset, network) has a catalog entry shows that
\* entry's chainDeposit, chainWithdraw, confirmation, contract address and minimums,
\* whatever they are, the number 0 too.
C14_CatalogFieldsKept ==
    \A q \in DOMAIN records :
        LET rec == records[q]
            key == <<rec.coin, rec.chain>>
        IN key \in DOMAIN coin_chain_idx =>
               LET ci == coin_chain_idx[key] IN
               /\ rec.chainDeposit = Held(ci.chainDeposit)
               /\ rec.chainWithdraw = Held(ci.chainWithdraw)
               /\ rec.confirmation = Held(ci.confirmation)
               /\ rec.coininfo_contractAddress_full = Held(ci.contractAddress)
               /\ rec.depositMin = Held(ci.depositMin)
               /\ rec.withdrawMin = Held(ci.withdrawMin)

\* the coin-info call has ended with an exception
CatalogFailed == pc = "coin_info" /\ outcome.kind = "raise"

\* C15: when the coin-info call has ended with an exception, the next step ends main
\* with the exception, with no further request sent, no lookup made and nothing
\* exported; and main, once ended, takes no step.
C15_CatalogFailureAborts ==
    [][ /\ CatalogFailed =>
            /\ pc' = "done"
            /\ exit_code' = "i:1"
            /\ total_sent' = total_sent
            /\ call_log' = <<>>
            /\ records' = <<>>
            /\ exported' = NotExported
        /\ pc # "done" ]_vars

\* C15 witness: main has ended on a failed coin-info call, after at least one request,
\* with no lookup and no export.
C15_Witness ==
    /\ pc = "done"
    /\ exit_code = "i:1"
    /\ path = CoinInfoPath
    /\ outcome.kind = "raise"
    /\ outcome.tag = "failed_after_retries"
    /\ total_sent = max_retries
    /\ call_log = <<>>
    /\ exported = NotExported

\* C16 as claimed: a scan that has ended with exit code 0 has an empty failures list.
C16_ZeroOnlyWithoutFailures ==
    (pc = "done" /\ exit_code = "i:0") => failures = <<>>

\* the key or the secret is missing, empty or a placeholder
BadCredentials ==
    \/ Falsy(api_key) \/ Falsy(api_secret)
    \/ PlaceholderKey \in {api_key, api_secret}

\* C17 as claimed: with a missing or placeholder key or secret no request is ever
\* sent, nothing is exported, and main ends with the configuration error.
C17_BadCredentialsStop ==
    BadCredentials =>
        /\ total_sent = 0
        /\ exported = NotExported
        /\ pc \in {"start", "done"}
        /\ (pc = "done" => exit_code = "i:2")

\* the order of str comparison on the networks a record can show
NetworkOrder == <<"", "ARBI", "BTC", "ETH", "Ethereum">>
NetworkRank(net) == CHOOSE n \in 1..Len(NetworkOrder) : NetworkOrder[n] = net

\* C18 as claimed: the exported records are in ascending order of asset and, within
\* one asset, in ascending order of network.
C18_SortedByAssetThenNetwork ==
    exported.written =>
        \A p, q \in DOMAIN exported.records :
            p < q =>
                LET a == exported.records[p]
                    b == exported.records[q]
                IN \/ Rank(a.coin) < Rank(b.coin)
                   \/ /\ a.coin = b.coin
                      /\ NetworkRank(a.chain) <= NetworkRank(b.chain)

\* what does hold of the export: ascending order of asset
SortedByAsset ==
    exported.written =>
        \A p, q \in DOMAIN exported.records :
            p < q => Rank(exported.records[p].coin) <= Rank(exported.records[q].coin)

Places ==
    {pl \in UNION {{<<r, c>> : c \in DOMAIN coin_rows[r].chains} : r \in DOMAIN coin_rows} :
        /\ \/ coin_rows[pl[1]].coin \notin {Missing, None, ""}
           \/ coin_rows[pl[1]].name \notin {Missing, None, ""}
        /\ coin_rows[pl[1]].chains[pl[2]].chain \notin {Missing, None, ""}}
\* the (asset, network) of a place; the asset is "coin", or "name" where "coin" is absent
KeyAt(pl) ==
    LET row == coin_rows[pl[1]]
    IN <<IF row.coin \notin {Missing, None, ""} THEN row.coin ELSE row.name,
         row.chains[pl[2]].chain>>
\* the place comes later in the catalog
Later(a, b) == a[1] > b[1] \/ (a[1] = b[1] /\ a[2] > b[2])

\* C20: the index built from the catalog rows has a key exactly for the (asset,
\* network) of the entries that carry both, maps each key to the last entry of the
\* catalog with that key, and is built without a failure whatever the rows lack.
C20_IndexLastWins ==
    pc = "indexed" =>
        /\ DOMAIN coin_chain_idx = {KeyAt(pl) : pl \in Places}
        /\ \A pl \in Places :
               (\A other \in Places : KeyAt(other) = KeyAt(pl) => ~Later(other, pl)) =>
                   coin_chain_idx[KeyAt(pl)] = coin_rows[pl[1]].chains[pl[2]]
        /\ failures = <<>>
        /\ exit_code = None

\* C20 witness: the index was built from a catalog that holds one key twice with
\* different entries, a row without asset and an entry without network.
C20_Witness ==
    /\ pc = "indexed"
    /\ \E a, b \in Places :
           /\ Later(b, a)
           /\ KeyAt(a) = KeyAt(b)
           /\ coin_rows[a[1]].chains[a[2]] # coin_rows[b[1]].chains[b[2]]
           /\ coin_chain_idx[KeyAt(a)] = coin_rows[b[1]].chains[b[2]]
    /\ \E r \in DOMAIN coin_rows :
           /\ coin_rows[r].coin = Missing /\ coin_rows[r].name = Missing
           /\ coin_rows[r].chains # <<>>
    /\ \E r \in DOMAIN coin_rows :
           \E c \in DOMAIN coin_rows[r].chains :
               /\ coin_rows[r].coin # Missing
               /\ coin_rows[r].chains[c].chain = Missing

\* the asset symbols seen in the catalog rows: "coin", or "name" where "coin" is absent
Symbols ==
    {IF coin_rows[r].coin \notin {Missing, None, ""} THEN coin_rows[r].coin
     ELSE coin_rows[r].name :
        r \in {x \in DOMAIN coin_rows :
                  \/ coin_rows[x].coin \notin {Missing, None, ""}
                  \/ coin_rows[x].name \notin {Missing, None, ""}}}
\* the assets whose lookup has been begun, in order
LookedUp == [n \in 1..i |-> coins[n]]

\* C21: the lookups begun so far are for symbols of the catalog, in strictly ascending
\* order (so none twice); each ended lookup is the lookup of its place in that order;
\* and once the loop is left every symbol of the catalog has been looked up.
C21_OneLookupPerSymbol ==
    /\ i <= Len(coins)
    /\ \A n \in 1..i : LookedUp[n] \in Symbols
    /\ \A m, n \in 1..i : m < n => Rank(LookedUp[m]) < Rank(LookedUp[n])
    /\ Len(call_log) = (IF pc = "address" THEN i - 1 ELSE i)
    /\ \A n \in DOMAIN call_log : call_log[n].coin = LookedUp[n]
    /\ (pc = "address" => query_string = UrlEncode(<<<<"coin", LookedUp[i]>>>>))
    /\ (pc \in {"export", "done"} /\ exit_code \in {None, "i:0"} =>
            {LookedUp[n] : n \in 1..i} = Symbols)

\* C21 witness: the catalog lists ETH in two rows, before and after BTC; the finished
\* scan has looked up BTC, then ETH, once each.
C21_Witness ==
    /\ pc = "done"
    /\ Len(coin_rows) = 3
    /\ coin_rows[1].coin = "ETH" /\ coin_rows[3].coin = "ETH"
    /\ Len(call_log) = 2
    /\ call_log[1].coin = "BTC"
    /\ call_log[2].coin = "ETH"

\* the query hash in a token
HashOf(token) == token.payload.query_hash

C23_NonJsonIsTerminal ==
    resp.kind = "nonjson" =>
        /\ outcome.kind = "raise"
        /\ outcome.tag = "non_json"
        /\ outcome.retCode = resp.status
        /\ sent = retriable_seen + 1
        /\ sleeps = retriable_seen
        /\ now = Arrival
        /\ attempt = retriable_seen

\* C23 witness: the unparseable response came as the answer to the 8th request.
C23_Witness ==
    /\ resp.kind = "nonjson"
    /\ sent = max_retries
    /\ outcome.kind = "raise"

\* C24 as claimed: an exception of the HTTP call on an attempt that is not the last
\* leaves the logical call running, to be attempted again.
C24_TransportErrorRetried ==
    (resp.kind = "exception" /\ sent < max_retries) => outcome.kind # "raise"

\* an authentication error was answered to a request for the current currency
AuthErrorInCurrency ==
    \E n \in DOMAIN bithumb_requests :
        /\ bithumb_requests[n].currency = currencies[currency_i]
        /\ bithumb_requests[n].answer = ErrorAnswer("invalid_jwt")

\* C25 as claimed: from the moment the counter has reached MAX_AUTH_ERRORS it stays
\* there and no further generate_address request is issued; and a step that resets
\* the counter to zero ends a currency that was answered no authentication error.
C25_StopsAtMaxAuthErrors ==
    [][ /\ consecutive_auth_errors >= MAX_AUTH_ERRORS =>
            /\ consecutive_auth_errors' >= MAX_AUTH_ERRORS
            /\ bithumb_requests' = bithumb_requests
        /\ (consecutive_auth_errors # 0 /\ consecutive_auth_errors' = 0) =>
            ~AuthErrorInCurrency ]_vars

\* the requests and the result rows of a (coin, chainType) pair
RequestsOfPair(pair) ==
    {n \in DOMAIN ult_requests :
        <<ult_requests[n].coin, ult_requests[n].chain_type>> = pair}
ResultsOfPair(pair) ==
    {n \in DOMAIN ult_results : <<ult_results[n].coin, ult_results[n].chain_type>> = pair}
\* the requests and the result rows of one chain entry of the catalog
RequestsOfEntry(e) == {n \in DOMAIN ult_requests : ult_requests[n].entry = e}
ResultsOfEntry(e) == {n \in DOMAIN ult_results : ult_results[n].entry = e}
\* the answer makes the loop try again: retCode 10002, or an exception while reading it
AsksRetry(r) == r.retCode = 10002 \/ (r.retCode = 0 /\ r.shape = "null_result")
\* every request of the set but the first follows an answer that asks for a retry
OnlyAfterRetry(S) ==
    \A n \in S : (\E m \in S : m < n) => (n - 1 \in S /\ AsksRetry(ult_requests[n - 1].answer))

\* C26 as claimed: for every (coin, chainType) pair at most 3 requests are issued, each
\* but the first after an answer that asks for a retry, and at most one result row
\* is appended.
C26_PerPairBounds ==
    \A n \in DOMAIN ult_requests :
        LET pair == <<ult_requests[n].coin, ult_requests[n].chain_type>> IN
        /\ Cardinality(RequestsOfPair(pair)) <= ult_max_retries
        /\ OnlyAfterRetry(RequestsOfPair(pair))
        /\ Cardinality(ResultsOfPair(pair)) <= 1

\* C26 amended: for every chain entry of the catalog that has a chainType at most 3
\* requests are issued, each but the first after an answer that asks for a retry, and
\* at most one result row is appended; entries without chainType get no request.
C26_PerEntryBounds ==
    /\ \A n \in DOMAIN ult_requests :
           LET e == ult_requests[n].entry IN
           /\ Cardinality(RequestsOfEntry(e)) <= ult_max_retries
           /\ OnlyAfterRetry(RequestsOfEntry(e))
           /\ Cardinality(ResultsOfEntry(e)) <= 1
           /\ ult_requests[n].chain_type = coins_rows[e[1]].chains[e[2]]
           /\ ult_requests[n].chain_type # Missing
    /\ \A n \in DOMAIN ult_results : RequestsOfEntry(ult_results[n].entry) # {}

\* C26 witness: the scan has ended; one entry was requested three times (10002, an
\* exception, then an address) and has its one result row.
C26_Witness ==
    /\ pc = "ult_done"
    /\ \E n \in DOMAIN ult_requests :
           LET e == ult_requests[n].entry IN
           /\ n + 2 \in DOMAIN ult_requests
           /\ Cardinality(RequestsOfEntry(e)) = ult_max_retries
           /\ ult_requests[n].answer = UltAnswer(10002, "error")
           /\ ult_requests[n + 1].answer = UltAnswer(0, "null_result")
           /\ ult_requests[n + 2].answer = UltAnswer(0, "address")
           /\ Cardinality(ResultsOfEntry(e)) = 1

\* C28: in every physical attempt of the signed GET the signed values are the sent
\* values: the signed string is, in this order, the X-BAPI-TIMESTAMP header, the
\* X-BAPI-API-KEY header, the X-BAPI-RECV-WINDOW header and the query string of the
\* request url; the signature is sent as X-BAPI-SIGN and keyed by the secret.
C28_SignedIsSent ==
    sent > 0 =>
        /\ req.headers.X_BAPI_SIGN.prehash =
               <<req.headers.X_BAPI_TIMESTAMP, req.headers.X_BAPI_API_KEY,
                 req.headers.X_BAPI_RECV_WINDOW, req.url.query>>
        /\ req.headers.X_BAPI_API_KEY = api_key
        /\ req.headers.X_BAPI_SIGN.hmac_key = api_secret
        /\ req.url.path = path

\* a second attempt of a call with a query string, signed at its own time
C28_Witness ==
    /\ sent = 2
    /\ req.url.query = <<"coin", "=", "BTC">>
    /\ req.headers.X_BAPI_TIMESTAMP > Epoch
    /\ req.headers.X_BAPI_SIGN.prehash[1] = req.headers.X_BAPI_TIMESTAMP

\* C29: the wait chosen after a rate-limited answer is never negative; when the answer
\* supplies a reset timestamp (a non-empty header value, which is what the code tests)
\* the wait is at least 0.5 s, also when the timestamp lies in the past or equals the
\* current time; when the supplied value is not an integer the wait is the 1.0 s
\* default.
C29_WaitFloor ==
    (JsonResp /\ resp.retCode = 10006) =>
        /\ sleep_ms >= 0
        /\ resp.reset.t \in {"int", "text"} => sleep_ms >= MinResetSleepMs
        /\ (resp.reset.t = "int" /\ resp.reset.v <= Arrival) => sleep_ms >= MinResetSleepMs
        /\ resp.reset.t = "text" => sleep_ms = DefaultSleepMs

\* a reset timestamp in the past: the wait is the floor
C29_Witness ==
    /\ JsonResp /\ resp.retCode = 10006
    /\ resp.reset.t = "int"
    /\ resp.reset.v < Arrival
    /\ sleep_ms = MinResetSleepMs

\* the number of distinct assets of the catalog
DistinctAssets == Cardinality({coins[n] : n \in DOMAIN coins})

\* C30: the scan terminates: main always ends, and a scan begun with credentials ends
\* either on a failed catalog call, with nothing exported, or after the export step,
\* which is taken once, after the last asset, and writes every record accumulated,
\* with or without failures; at most max_retries physical requests are sent for the
\* catalog and for each asset begun, so at most max_retries * (1 + number of distinct
\* assets) when the scan ends.
C30_ScanTerminates ==
    /\ <>(pc = "done")
    /\ [](total_sent <= max_retries * (IF pc = "coin_info" THEN 1 ELSE 1 + i))
    /\ [](i <= DistinctAssets /\ DistinctAssets = Len(coins))
    /\ []((pc = "done" /\ ~Falsy(api_key)) =>
            /\ total_sent <= max_retries * (1 + DistinctAssets)
            /\ \/ /\ exit_code = "i:1"
                  /\ path = CoinInfoPath /\ outcome.kind = "raise"
                  /\ exported = NotExported
               \/ /\ exit_code = "i:0"
                  /\ i = Len(coins)
                  /\ exported = Exported(records))
    /\ [](pc = "export" => (i = Len(coins) /\ exported = NotExported))
    /\ [](exported.written => pc = "done")
    /\ [][pc = "done" => pc' = "done"]_vars

\* C30 witness: the scan has ended after the export, with records and with failures,
\* and every lookup used all its attempts.
C30_Witness ==
    /\ pc = "done"
    /\ exit_code = "i:0"
    /\ failures # <<>>
    /\ records # <<>>
    /\ exported = Exported(records)
    /\ Len(coins) = 2
    /\ total_sent > max_retries * Len(coins)

\* C27 as claimed: every lookup answered retCode 0 with a non-empty row list has a
\* result row with its coin, its chain and the first row's address, and the scan has
\* not stopped: it is on its way through the chains, or has saved.
C27_FoundAddressKept ==
    \A n \in DOMAIN dep_requests :
        LET q == dep_requests[n] IN
        (~q.answer.none /\ q.answer.retCode = 0 /\ q.answer.rows # <<>>) =>
            /\ \E m \in DOMAIN dep_results :
                   /\ dep_results[m].coin = q.coin
                   /\ dep_results[m].chain = q.chain
                   /\ dep_results[m].address = q.answer.rows[1].address
            /\ pc \in {"dep_chain", "dep_lookup", "dep_save", "dep_saved"}

============================================================================
